---- MODULE Spec2Model ----
(***************************************************************************)
(* Markdown splitter & copier (JiNenn/sepmd).                              *)
(*                                                                         *)
(* The repository holds two revisions of the single-page app:              *)
(*   "v1"  src/src/main.tsx      tokenize / toSegments / segmentToMarkdown *)
(*                               and the two-tier copyText                 *)
(*   "v2"  src/unnamed/part_000  splitMarkdownByHeading and the three-tier *)
(*                               smartCopy with the manual-copy modal      *)
(* A run is a run of one of the two; the variable rev says which.          *)
(*                                                                         *)
(* A JavaScript string is a sequence of one-character strings, so that the *)
(* regular expressions, split, join and trim of the source are computed    *)
(* character by character.                                                 *)
(***************************************************************************)
EXTENDS Integers, Sequences, FiniteSets, TLC

----------------------------------------------------------------------------
(* Characters and strings *)

NL == "\n"
CR == "\r"

\* \s of a JavaScript regular expression, restricted to the characters used
WS == {" ", "\t", NL, CR}

IsWS(c) == c \in WS

AllWS(s) == \A i \in 1..Len(s) : IsWS(s[i])

\* number of leading characters of s that satisfy "is whitespace"
RECURSIVE LeadWS(_)
LeadWS(s) == IF s = <<>> \/ ~IsWS(s[1]) THEN 0 ELSE 1 + LeadWS(Tail(s))

RECURSIVE TrailWS(_)
TrailWS(s) ==
  IF s = <<>> \/ ~IsWS(s[Len(s)]) THEN 0
  ELSE 1 + TrailWS(SubSeq(s, 1, Len(s) - 1))

Drop(s, n) == SubSeq(s, n + 1, Len(s))
Take(s, n) == SubSeq(s, 1, n)

TrimStart(s) == Drop(s, LeadWS(s))
TrimEnd(s) == Take(s, Len(s) - TrailWS(s))

\* String.prototype.trim
Trim(s) == TrimEnd(TrimStart(s))

StartsWith(s, p) == Len(s) >= Len(p) /\ Take(s, Len(p)) = p

\* String.prototype.repeat
RECURSIVE Repeat(_, _)
Repeat(c, n) == IF n <= 0 THEN <<>> ELSE <<c>> \o Repeat(c, n - 1)

\* Array.prototype.join
RECURSIVE Join(_, _)
Join(ss, sep) ==
  IF ss = <<>> THEN <<>>
  ELSE IF Len(ss) = 1 THEN ss[1]
  ELSE ss[1] \o sep \o Join(Tail(ss), sep)

\* String.prototype.split("\n"): the empty string splits into one empty line
RECURSIVE SplitAcc(_, _, _)
SplitAcc(s, cur, acc) ==
  IF s = <<>> THEN Append(acc, cur)
  ELSE IF s[1] = NL THEN SplitAcc(Tail(s), <<>>, Append(acc, cur))
  ELSE SplitAcc(Tail(s), Append(cur, s[1]), acc)

SplitNL(s) == SplitAcc(s, <<>>, <<>>)

\* replace(/\r\n?/g, "\n")
RECURSIVE NormEOL(_)
NormEOL(s) ==
  IF s = <<>> THEN <<>>
  ELSE IF s[1] = CR
    THEN IF Len(s) >= 2 /\ s[2] = NL
           THEN <<NL>> \o NormEOL(Drop(s, 2))
           ELSE <<NL>> \o NormEOL(Tail(s))
  ELSE <<s[1]>> \o NormEOL(Tail(s))

\* number of leading characters of s equal to c
RECURSIVE LeadRun(_, _)
LeadRun(s, c) == IF s = <<>> \/ s[1] # c THEN 0 ELSE 1 + LeadRun(Tail(s), c)

\* The backquote character (U+0060). The TLA+ lexer accepts no backquote in a
\* string, so the apostrophe stands for it; no input holds a real apostrophe.
BQ == "'"

BT3 == <<BQ, BQ, BQ>>
TL3 == <<"~", "~", "~">>

----------------------------------------------------------------------------
(* v1: trimEmptyJoin *)

\* index of the last "\n" among the first n characters of s, 0 if none
RECURSIVE LastNLIn(_, _)
LastNLIn(s, n) ==
  IF n = 0 THEN 0 ELSE IF s[n] = NL THEN n ELSE LastNLIn(s, n - 1)

\* replace(/^\s*\n+/, ""): the leading whitespace up to its last newline
StripLeadingBlank(s) == Drop(s, LastNLIn(s, LeadWS(s)))

\* replace(/\n{3,}/g, "\n\n")
RECURSIVE CollapseNL(_)
CollapseNL(s) ==
  IF s = <<>> THEN <<>>
  ELSE LET k == LeadRun(s, NL) IN
    IF k >= 3 THEN <<NL, NL>> \o CollapseNL(Drop(s, k))
    ELSE IF k >= 1 THEN Take(s, k) \o CollapseNL(Drop(s, k))
    ELSE <<s[1]>> \o CollapseNL(Tail(s))

\* index of the first "\n" in s at or after position i, 0 if none
RECURSIVE FirstNLFrom(_, _)
FirstNLFrom(s, i) ==
  IF i > Len(s) THEN 0 ELSE IF s[i] = NL THEN i ELSE FirstNLFrom(s, i + 1)

\* replace(/\n+\s*$/, ""): from the first newline of the trailing whitespace
StripTrailingBlank(s) ==
  LET p == FirstNLFrom(s, Len(s) - TrailWS(s) + 1) IN
  IF p = 0 THEN s ELSE Take(s, p - 1)

trimEmptyJoin(lines) ==
  StripTrailingBlank(CollapseNL(StripLeadingBlank(Join(lines, <<NL>>))))

----------------------------------------------------------------------------
(* v1: tokenize *)

\* /^\s*BQ BQ BQ(.*)$/  (openFence)
openFence(line) == StartsWith(TrimStart(line), BT3)

\* group 1 of openFence
openFenceTag(line) == Drop(TrimStart(line), 3)

\* /^\s*BQ BQ BQ\s*$/  (closeFence)
closeFence(line) == openFence(line) /\ AllWS(openFenceTag(line))

\* /^(#{1,6})\s+(.*)$/
headingRe(line) ==
  LET k == LeadRun(line, "#") IN
  k \in 1..6 /\ Len(line) > k /\ IsWS(line[k + 1])

\* m[1].length
headingLevel(line) == LeadRun(line, "#")

\* m[2].trim()
headingText(line) == Trim(Drop(line, LeadRun(line, "#")))

\* string | null: a language tag is never the empty string, so the empty
\* sequence stands for null
NullLang == <<>>

HeadingPart(level, text) == [type |-> "heading", level |-> level, text |-> text]
TextPart(text) == [type |-> "text", text |-> text]
CodePart(lang, code) == [type |-> "code", lang |-> lang, code |-> code]

\* the local variables of tokenize
TokInit ==
  [out |-> <<>>, buf |-> <<>>, inCode |-> FALSE, codeLang |-> NullLang,
   codeBuf |-> <<>>]

flushText(st) ==
  IF st.buf # <<>>
    THEN LET text == trimEmptyJoin(st.buf) IN
         [st EXCEPT !.out = IF text # <<>> THEN Append(@, TextPart(text)) ELSE @,
                    !.buf = <<>>]
    ELSE st

\* one iteration of "for (const raw of lines)"
TokStep(st, line) ==
  IF ~st.inCode /\ openFence(line)
    THEN [flushText(st) EXCEPT !.inCode = TRUE,
                               !.codeLang = Trim(openFenceTag(line)),
                               !.codeBuf = <<>>]
  ELSE IF st.inCode
    THEN IF closeFence(line)
           THEN [st EXCEPT !.out = Append(@, CodePart(st.codeLang,
                                                     Join(st.codeBuf, <<NL>>))),
                           !.inCode = FALSE,
                           !.codeLang = NullLang,
                           !.codeBuf = <<>>]
           ELSE [st EXCEPT !.codeBuf = Append(@, line)]
  ELSE IF headingRe(line)
    THEN [flushText(st) EXCEPT
            !.out = Append(@, HeadingPart(headingLevel(line), headingText(line)))]
  ELSE [st EXCEPT !.buf = Append(@, line)]

\* the loop state after the first n lines
RECURSIVE TokScan(_, _)
TokScan(lines, n) ==
  IF n = 0 THEN TokInit ELSE TokStep(TokScan(lines, n - 1), lines[n])

\* the unterminated fence at the end of the input
TokFinish(st) ==
  LET f == flushText(st) IN
  IF f.inCode /\ f.codeBuf # <<>>
    THEN Append(f.out, TextPart(BT3 \o <<NL>> \o Join(f.codeBuf, <<NL>>)))
    ELSE f.out

mdLines(md) == SplitNL(NormEOL(md))

tokenize(md) ==
  LET lines == mdLines(md) IN TokFinish(TokScan(lines, Len(lines)))

----------------------------------------------------------------------------
(* v1: toSegments *)

\* heading?: { level, text } | null
NullHeading == [null |-> TRUE]

\* `seg_${segs.length}_${Math.random().toString(36).slice(2, 8)}`: the two
\* fields determine the string, and the string determines the two fields;
\* first a variant of it without the count of the segments
SegIdSuffixOnly(n, suffix) == [n |-> 0, suffix |-> suffix]
SegId(n, suffix) == [n |-> n, suffix |-> suffix]

\* p.type === "heading" && p.level <= depth
IsBoundaryAnyLevel(p, depth) == p.type = "heading"
IsBoundaryExact(p, depth) == p.type = "heading" /\ p.level = depth
IsBoundary(p, depth) == p.type = "heading" /\ p.level <= depth

\* startSeg: cur is the index in segs of the object cur refers to (0: null);
\* rnd[k] is the k-th value Math.random gives in this run
startSegNoHeadingPart(st, heading, rnd) ==
  LET n == Len(st.segs) IN
  [segs |-> Append(st.segs, [id |-> SegId(n, rnd[n + 1]),
                             heading |-> heading,
                             parts |-> <<>>]),
   cur |-> n + 1]
startSeg(st, heading, rnd) ==
  LET n == Len(st.segs) IN
  [segs |-> Append(st.segs,
              [id |-> SegId(n, rnd[n + 1]),
               heading |-> heading,
               parts |-> IF heading # NullHeading
                           THEN <<HeadingPart(heading.level, heading.text)>>
                           ELSE <<>>]),
   cur |-> n + 1]

\* one iteration of "for (const p of parts)"; first a variant of it in which
\* a heading below the boundary levels opens a segment without heading
SegStepDeepHeadingOpens(st, p, depth, rnd) ==
  IF IsBoundary(p, depth)
    THEN startSeg(st, [level |-> p.level, text |-> p.text], rnd)
    ELSE LET s1 == IF st.cur = 0 \/ p.type = "heading"
                     THEN startSeg(st, NullHeading, rnd) ELSE st IN
         [s1 EXCEPT !.segs[s1.cur].parts = Append(@, p)]
SegStep(st, p, depth, rnd) ==
  IF IsBoundary(p, depth)
    THEN startSeg(st, [level |-> p.level, text |-> p.text], rnd)
    ELSE LET s1 == IF st.cur = 0 THEN startSeg(st, NullHeading, rnd) ELSE st IN
         [s1 EXCEPT !.segs[s1.cur].parts = Append(@, p)]

RECURSIVE SegScan(_, _, _, _)
SegScan(parts, n, depth, rnd) ==
  IF n = 0 THEN [segs |-> <<>>, cur |-> 0]
  ELSE SegStep(SegScan(parts, n - 1, depth, rnd), parts[n], depth, rnd)

NonEmptySeg(s) == Len(s.parts) > 0

toSegments(parts, depth, rnd) ==
  SelectSeq(SegScan(parts, Len(parts), depth, rnd).segs, NonEmptySeg)

----------------------------------------------------------------------------
(* v1: segmentToMarkdown *)

HeadingLine(level, text) == Repeat("#", level) \o <<" ">> \o text

PartLines(p) ==
  IF p.type = "text" THEN <<p.text>>
  ELSE IF p.type = "heading" THEN <<HeadingLine(p.level, p.text)>>
  ELSE <<BT3 \o p.lang, p.code, BT3>>

RECURSIVE PartsLines(_)
PartsLines(parts) ==
  IF parts = <<>> THEN <<>> ELSE PartLines(parts[1]) \o PartsLines(Tail(parts))

segmentToMarkdown(seg) ==
  LET head == IF seg.heading # NullHeading
                THEN <<HeadingLine(seg.heading.level, seg.heading.text)>>
                ELSE <<>>
  IN Trim(Join(head \o PartsLines(seg.parts), <<NL>>))

----------------------------------------------------------------------------
(* v2: splitMarkdownByHeading *)

\* fenceChar: '`' | '~' | null
NullFence == "null"

\* the local variables of splitMarkdownByHeading
SplitInit ==
  [chunks |-> <<>>, buf |-> <<>>, inFence |-> FALSE, fenceChar |-> NullFence,
   id |-> 1]

\* push
pushKeepEmpty(st) ==
  [st EXCEPT !.chunks = Append(@, [id |-> st.id,
                                   markdown |-> Trim(Join(st.buf, <<NL>>))]),
             !.id = @ + 1,
             !.buf = <<>>]
push(st) ==
  LET text == Trim(Join(st.buf, <<NL>>)) IN
  IF Len(text) > 0
    THEN [st EXCEPT !.chunks = Append(@, [id |-> st.id, markdown |-> text]),
                    !.id = @ + 1,
                    !.buf = <<>>]
    ELSE [st EXCEPT !.buf = <<>>]

\* trimmed.match(/^(#{1,6})\s+.+/)
splitHeadingRe(trimmed) ==
  LET k == LeadRun(trimmed, "#") IN
  k \in 1..6 /\ Len(trimmed) >= k + 2 /\ IsWS(trimmed[k + 1])

\* h <= level
SplitBoundary(trimmed, level) ==
  splitHeadingRe(trimmed) /\ LeadRun(trimmed, "#") <= level

\* one iteration of "for (let i = 0; i < lines.length; i++)"
SplitStep(st, line, level) ==
  LET trimmed == Trim(line)
      isBT == StartsWith(trimmed, BT3)
      isTL == StartsWith(trimmed, TL3)
  IN
  IF isBT \/ isTL
    THEN LET opener == IF isBT THEN BQ ELSE "~"
             st1 == IF ~st.inFence
                      THEN [st EXCEPT !.inFence = TRUE, !.fenceChar = opener]
                    ELSE IF st.fenceChar # NullFence
                            /\ ((st.fenceChar = BQ /\ isBT)
                                \/ (st.fenceChar = "~" /\ isTL))
                      THEN [st EXCEPT !.inFence = FALSE, !.fenceChar = NullFence]
                    ELSE st
         IN [st1 EXCEPT !.buf = Append(@, line)]
  ELSE IF ~st.inFence /\ SplitBoundary(trimmed, level)
    THEN LET st1 == IF Len(st.buf) > 0 THEN push(st) ELSE st IN
         [st1 EXCEPT !.buf = Append(@, line)]
  ELSE [st EXCEPT !.buf = Append(@, line)]

RECURSIVE SplitScan(_, _, _)
SplitScan(lines, n, level) ==
  IF n = 0 THEN SplitInit
  ELSE SplitStep(SplitScan(lines, n - 1, level), lines[n], level)

splitMarkdownByHeading(src, level) ==
  LET lines == mdLines(src)
      st == SplitScan(lines, Len(lines), level)
  IN (IF Len(st.buf) > 0 THEN push(st) ELSE st).chunks

----------------------------------------------------------------------------
(* Inputs *)

\* the lines a document is made of
LineSet ==
  { <<>>,
    <<"a">>,
    <<"#", " ", "a">>,
    <<"#", "#", " ", "a">>,
    <<"#", "#", "#", " ", "a">>,
    BT3,
    BT3 \o <<"j", "s">>,
    TL3 }

\* the longest document, in lines
MaxLines == 4

LineSeqs == UNION { [1..n -> LineSet] : n \in 0..MaxLines }

Docs == { Join(ls, <<NL>>) : ls \in LineSeqs }

NumLines(md) == Len(SplitNL(md))

Depths == {1, 2, 3}

\* The values Math.random gives in one run of toSegments, as id suffixes:
\* every draw the same, and two values alternating
RandStreams ==
  { [k \in 1..(MaxLines + 1) |-> "x"],
    [k \in 1..(MaxLines + 1) |-> IF k % 2 = 1 THEN "x" ELSE "y"] }

Revs == {"v1", "v2"}

----------------------------------------------------------------------------
(* The copy protocol: what the platform does, and the two tiers' code *)

\* navigator.clipboard: missing, present in an insecure context, or present
\* and writeText returns a promise
Tier1Env == {"absent", "insecure", "writes"}

\* What the legacy tier meets: document.createElement throws; select throws
\* (the textarea is appended by then); document.execCommand is no function;
\* execCommand throws; execCommand returns false; execCommand returns true
LegacyEnv ==
  {"createThrows", "selectThrows", "execMissing", "execThrows", "execFalse",
   "execTrue"}

\* v2 copyWithExecCommand: ok is the value returned, left the textareas it
\* leaves appended to document.body, wrote whether the text reached the
\* clipboard
copyWithExecCommand(leg) ==
  IF leg = "createThrows"
    THEN [ok |-> FALSE, left |-> 0, wrote |-> FALSE]        \* catch: return false
  ELSE \* appendChild(ta)
    IF leg \in {"selectThrows", "execThrows"}
      THEN [ok |-> FALSE, left |-> 1, wrote |-> FALSE]      \* catch: return false
    ELSE LET ok == IF leg = "execMissing" THEN FALSE ELSE leg = "execTrue" IN
         \* removeChild(ta); return !!ok
         [ok |-> ok, left |-> 0, wrote |-> ok]

\* v2 smartCopy, its catch block: the legacy tier, then the manual request
smartCopyCatchManualFirst(leg) ==
  LET x == copyWithExecCommand(leg) IN
  [res |-> IF x.ok THEN "exec" ELSE "manual",
   log |-> <<"requestManual", "execCommand">>,
   left |-> x.left, wrote |-> x.wrote, threw |-> FALSE]
smartCopyCatch(leg) ==
  LET x == copyWithExecCommand(leg) IN
  IF x.ok
    THEN [res |-> "exec", log |-> <<"execCommand">>,
          left |-> x.left, wrote |-> x.wrote, threw |-> FALSE]
    ELSE [res |-> "manual", log |-> <<"execCommand", "requestManual">>,
          left |-> x.left, wrote |-> x.wrote, threw |-> FALSE]

\* v2 smartCopy after writeText resolved; first a variant of it that goes on
\* to the legacy tier
smartCopyWrittenThenExec ==
  [res |-> "clipboard", log |-> <<"execCommand">>, left |-> 0, wrote |-> TRUE,
   threw |-> FALSE]
smartCopyWritten ==
  [res |-> "clipboard", log |-> <<>>, left |-> 0, wrote |-> TRUE, threw |-> FALSE]

\* v1 copyText, its catch block: nothing in it is guarded, so whatever throws
\* leaves copyText's promise rejected
copyTextCatch(leg) ==
  IF leg = "createThrows"
    THEN [res |-> "none", log |-> <<"execCommand">>,
          left |-> 0, wrote |-> FALSE, threw |-> TRUE]
  ELSE \* appendChild(ta)
    IF leg \in {"selectThrows", "execMissing", "execThrows"}
      THEN [res |-> "none", log |-> <<"execCommand">>,
            left |-> 1, wrote |-> FALSE, threw |-> TRUE]
    ELSE \* removeChild(ta); return ok
         [res |-> IF leg = "execTrue" THEN "true" ELSE "false",
          log |-> <<"execCommand">>,
          left |-> 0, wrote |-> leg = "execTrue", threw |-> FALSE]

\* v1 copyText after writeText resolved
copyTextWritten ==
  [res |-> "true", log |-> <<>>, left |-> 0, wrote |-> TRUE, threw |-> FALSE]

\* what the clipboard holds before anything is copied
ClipboardInitial == <<"?">>

\* the copy requests (clicks on a copy button) of a run
MaxReq == 2

ReqIds == 1..MaxReq

\* the segment id a request that copies no code block holds
NoSegId == [n |-> -1, suffix |-> "-"]

\* A request: pc is where its handler is (idle: not clicked yet; awaitWrite:
\* suspended on writeText; done: returned; rejected: its promise rejected),
\* kind/idx/part/segId what was clicked, text the text handed to the copy
\* function, log the calls made for it in order, res what the copy function
\* returned, legacy what the legacy tier met, completed how often its
\* completion (scroll to the next card, mark the code copied) ran, timer
\* whether its setTimeout is pending, stale whether the effect has parsed
\* again since the click (v1)
IdleReq ==
  [pc |-> "idle", kind |-> "none", idx |-> 0, part |-> 0, segId |-> NoSegId,
   text |-> <<>>, log |-> <<>>, res |-> "none", legacy |-> "none",
   completed |-> 0, timer |-> FALSE, stale |-> FALSE]

\* v2 App: useState({open: false, text: ''}); onComplete is the request whose
\* completion the callback runs, 0 for undefined
ManualClosed == [open |-> FALSE, text |-> <<>>, onComplete |-> 0]

\* v2: the code strings the Markdown renderer hands to the CodeBlock
\* components of the page (String(children)), in document order
RenderedCode == << <<"a", NL>> >>

\* the document on the page while copying
CopyDoc == Join(<<BT3, <<"a">>, BT3, <<"#", " ", "a">>>>, <<NL>>)

----------------------------------------------------------------------------
(* State *)

VARIABLES
  rev,            \* the revision of the app that runs
  input,          \* v1 App: the textarea's text
  depth,          \* v1 App: the split depth
  segments,       \* v1 App: the segments shown
  effectPending,  \* v1 App: input or depth changed, the effect has not run yet
  copiedCodeIds,  \* v1 App: code id -> copied
  raw,            \* v2 App: the textarea's text
  level,          \* v2 App: the split level
  manual,         \* v2 App: the manual-copy modal
  copied,         \* v2 CodeBlock: copied, per code block of the page
  req,            \* the copy requests: where each handler is
  sysClipboard,   \* the text on the system clipboard
  attached        \* the transient textareas appended to document.body

parseVars == <<rev, input, depth, segments, effectPending, raw, level>>
copyVars == <<copiedCodeIds, manual, copied, req, sysClipboard, attached>>
vars == <<rev, input, depth, segments, effectPending, copiedCodeIds, raw, level,
          manual, copied, req, sysClipboard, attached>>

\* v2 App: useMemo(() => splitMarkdownByHeading(raw, level), [raw, level])
sections == splitMarkdownByHeading(raw, level)

\* {} as Record<string, boolean>
EmptyMap == [k \in {} |-> FALSE]

InitCopyVars ==
  /\ copiedCodeIds = EmptyMap
  /\ manual = ManualClosed
  /\ copied = [b \in DOMAIN RenderedCode |-> FALSE]
  /\ req = [r \in ReqIds |-> IdleReq]
  /\ sysClipboard = ClipboardInitial
  /\ attached = 0

\* The textarea starts with a document of the bounded set in place of the
\* built-in sample text.
InitDoc(docs) ==
  /\ rev \in Revs
  /\ depth = 3
  /\ segments = <<>>
  /\ level = 2
  /\ IF rev = "v1"
       THEN input \in docs /\ raw = <<>> /\ effectPending = TRUE
       ELSE raw \in docs /\ input = <<>> /\ effectPending = FALSE
  /\ InitCopyVars

Init == InitDoc(Docs)

\* v1: useEffect(() => { setSegments(toSegments(tokenize(input), depth));
\* ...; setCopiedCodeIds({}) }, [input, depth])
RunEffect ==
  /\ rev = "v1"
  /\ effectPending
  /\ \E rnd \in RandStreams :
       segments' = toSegments(tokenize(input), depth, rnd)
  /\ effectPending' = FALSE
  /\ copiedCodeIds' = EmptyMap
  /\ req' = [r \in ReqIds |->
               IF req[r].pc = "idle" THEN req[r]
               ELSE [req[r] EXCEPT !.stale = TRUE]]
  /\ UNCHANGED <<rev, input, depth, raw, level, manual, copied,
                 sysClipboard, attached>>

\* v1: the textarea's onChange, typing one more line
SetInput ==
  /\ rev = "v1"
  /\ ~effectPending
  /\ NumLines(input) < MaxLines
  /\ \E l \in LineSet : input' = input \o <<NL>> \o l
  /\ effectPending' = TRUE
  /\ UNCHANGED <<rev, depth, segments, raw, level>>
  /\ UNCHANGED copyVars

\* v1: the select's onChange
SetDepth ==
  /\ rev = "v1"
  /\ ~effectPending
  /\ \E d \in Depths \ {depth} : depth' = d
  /\ effectPending' = TRUE
  /\ UNCHANGED <<rev, input, segments, raw, level>>
  /\ UNCHANGED copyVars

\* v2: the textarea's onChange, typing one more line
SetRaw ==
  /\ rev = "v2"
  /\ NumLines(raw) < MaxLines
  /\ \E l \in LineSet : raw' = raw \o <<NL>> \o l
  /\ UNCHANGED <<rev, input, depth, segments, effectPending, level>>
  /\ UNCHANGED copyVars

\* v2: the clear button
ClearRaw ==
  /\ rev = "v2"
  /\ raw # <<>>
  /\ raw' = <<>>
  /\ UNCHANGED <<rev, input, depth, segments, effectPending, level>>
  /\ UNCHANGED copyVars

\* v2: the select's onChange
SetLevel ==
  /\ rev = "v2"
  /\ \E d \in Depths \ {level} : level' = d
  /\ UNCHANGED <<rev, input, depth, segments, effectPending, raw>>
  /\ UNCHANGED copyVars

----------------------------------------------------------------------------
(* Copying *)

\* requests are numbered in the order of the clicks
CanStart(r) ==
  /\ req[r].pc = "idle"
  /\ IF r = 1 THEN TRUE ELSE req[r - 1].pc # "idle"

\* { ...m, [k]: v }
MapSet(m, k, v) == [x \in DOMAIN m \cup {k} |-> IF x = k THEN v ELSE m[x]]

CodeIdOf(rq) == [seg |-> rq.segId, part |-> rq.part]

\* the copy function suspends on "await navigator.clipboard.writeText(text)"
Suspend(r, rq) ==
  /\ req' = [req EXCEPT ![r] = [rq EXCEPT !.pc = "awaitWrite",
                                          !.log = <<"writeText">>]]
  /\ UNCHANGED <<copiedCodeIds, manual, copied, sysClipboard, attached>>

\* v2: copySection and CodeBlock.onCopy from the return of smartCopy on; out
\* is what smartCopy did and returned, leg what its legacy tier met; first a
\* variant of it that leaves the text of a modal that is already open
AfterSmartCopyKeepsText(r, rq, out, leg) ==
  LET isManual == out.res = "manual" IN
  /\ sysClipboard' = IF out.wrote THEN rq.text ELSE sysClipboard
  /\ attached' = attached + out.left
  /\ manual' = IF isManual
                 THEN [open |-> TRUE,
                       text |-> IF manual.open THEN manual.text ELSE rq.text,
                       onComplete |-> r]
                 ELSE manual
  /\ copied' = IF rq.kind = "code" /\ ~isManual
                 THEN [copied EXCEPT ![rq.idx] = TRUE]
                 ELSE copied
  /\ req' = [req EXCEPT ![r] =
               [rq EXCEPT !.pc = "done",
                          !.res = out.res,
                          !.legacy = leg,
                          !.log = @ \o out.log
                                    \o (IF isManual THEN <<"setManual">> ELSE <<>>),
                          !.completed = IF isManual THEN @ ELSE @ + 1,
                          !.timer = rq.kind = "code"]]
  /\ UNCHANGED copiedCodeIds
AfterSmartCopy(r, rq, out, leg) ==
  LET isManual == out.res = "manual" IN
  /\ sysClipboard' = IF out.wrote THEN rq.text ELSE sysClipboard
  /\ attached' = attached + out.left
  /\ manual' = IF isManual
                 THEN [open |-> TRUE, text |-> rq.text, onComplete |-> r]
                 ELSE manual
  /\ copied' = IF rq.kind = "code" /\ ~isManual
                 THEN [copied EXCEPT ![rq.idx] = TRUE]
                 ELSE copied
  /\ req' = [req EXCEPT ![r] =
               [rq EXCEPT !.pc = "done",
                          !.res = out.res,
                          !.legacy = leg,
                          !.log = @ \o out.log
                                    \o (IF isManual THEN <<"setManual">> ELSE <<>>),
                          !.completed = IF isManual THEN @ ELSE @ + 1,
                          !.timer = rq.kind = "code"]]
  /\ UNCHANGED copiedCodeIds

\* v2: smartCopy up to its first suspension or, without one, to the end of
\* the handler
StartSmartCopy(r, rq) ==
  \E t1 \in Tier1Env :
    IF t1 = "writes"
      THEN Suspend(r, rq)
      ELSE \E leg \in LegacyEnv : AfterSmartCopy(r, rq, smartCopyCatch(leg), leg)

\* v2 App: copySection(idx)
copySection(r) ==
  /\ rev = "v2"
  /\ CanStart(r)
  /\ \E i \in 1..Len(sections) :
       StartSmartCopy(r, [IdleReq EXCEPT !.kind = "section", !.idx = i,
                                         !.text = sections[i].markdown])
  /\ UNCHANGED parseVars

\* v2 CodeBlock: onCopy
onCopy(r) ==
  /\ rev = "v2"
  /\ CanStart(r)
  /\ \E b \in DOMAIN RenderedCode :
       StartSmartCopy(r, [IdleReq EXCEPT !.kind = "code", !.idx = b,
                                         !.text = RenderedCode[b]])
  /\ UNCHANGED parseVars

\* v2: writeText settles and smartCopy goes on
WriteSettlesV2(r) ==
  /\ rev = "v2"
  /\ req[r].pc = "awaitWrite"
  /\ \/ AfterSmartCopy(r, req[r], smartCopyWritten, "none")
     \/ \E leg \in LegacyEnv : AfterSmartCopy(r, req[r], smartCopyCatch(leg), leg)
  /\ UNCHANGED parseVars

\* v2 CodeBlock: setTimeout(() => setCopied(false), 1600)
TimerV2(r) ==
  /\ rev = "v2"
  /\ req[r].timer
  /\ copied' = [copied EXCEPT ![req[r].idx] = FALSE]
  /\ req' = [req EXCEPT ![r].timer = FALSE]
  /\ UNCHANGED <<copiedCodeIds, manual, sysClipboard, attached>>
  /\ UNCHANGED parseVars

\* v2 ManualCopyModal: onClose; first a variant of it that runs the completion
\* callback as well
ModalCloseRunsCallback ==
  /\ rev = "v2"
  /\ manual.open
  /\ manual' = ManualClosed
  /\ LET cb == manual.onComplete IN
     IF cb = 0
       THEN UNCHANGED <<copied, req>>
       ELSE /\ req' = [req EXCEPT ![cb].completed = @ + 1]
            /\ copied' = IF req[cb].kind = "code"
                           THEN [copied EXCEPT ![req[cb].idx] = TRUE]
                           ELSE copied
  /\ UNCHANGED <<copiedCodeIds, sysClipboard, attached>>
  /\ UNCHANGED parseVars
ModalClose ==
  /\ rev = "v2"
  /\ manual.open
  /\ manual' = ManualClosed
  /\ UNCHANGED <<copiedCodeIds, copied, req, sysClipboard, attached>>
  /\ UNCHANGED parseVars

\* v2 ManualCopyModal: onCopied, which runs the completion callback
ModalCopied ==
  /\ rev = "v2"
  /\ manual.open
  /\ manual' = ManualClosed
  /\ LET cb == manual.onComplete IN
     IF cb = 0
       THEN UNCHANGED <<copied, req>>
       ELSE /\ req' = [req EXCEPT ![cb].completed = @ + 1,
                                  ![cb].log = Append(@, "onCopied")]
            /\ copied' = IF req[cb].kind = "code"
                           THEN [copied EXCEPT ![req[cb].idx] = TRUE]
                           ELSE copied
  /\ UNCHANGED <<copiedCodeIds, sysClipboard, attached>>
  /\ UNCHANGED parseVars

\* v1: onCopySegment and onCopyCode from the return of copyText on
AfterCopyText(r, rq, out, leg) ==
  LET ok == ~out.threw /\ out.res = "true" IN
  /\ sysClipboard' = IF out.wrote THEN rq.text ELSE sysClipboard
  /\ attached' = attached + out.left
  /\ copiedCodeIds' = IF ok /\ rq.kind = "code"
                        THEN MapSet(copiedCodeIds, CodeIdOf(rq), TRUE)
                        ELSE copiedCodeIds
  /\ req' = [req EXCEPT ![r] =
               [rq EXCEPT !.pc = IF out.threw THEN "rejected" ELSE "done",
                          !.res = out.res,
                          !.legacy = leg,
                          !.log = @ \o out.log,
                          !.completed = IF ok THEN @ + 1 ELSE @,
                          !.timer = ok /\ rq.kind = "code"]]
  /\ UNCHANGED <<manual, copied>>

\* v1: copyText up to its first suspension or, without one, to the end of the
\* handler; without navigator.clipboard the call in the try block throws
StartCopyText(r, rq) ==
  \E t1 \in {"absent", "writes"} :
    IF t1 = "writes"
      THEN Suspend(r, rq)
      ELSE \E leg \in LegacyEnv : AfterCopyText(r, rq, copyTextCatch(leg), leg)

\* v1 App: onCopySegment(idx)
onCopySegment(r) ==
  /\ rev = "v1"
  /\ ~effectPending
  /\ CanStart(r)
  /\ \E i \in 1..Len(segments) :
       StartCopyText(r, [IdleReq EXCEPT !.kind = "section", !.idx = i,
                                        !.text = segmentToMarkdown(segments[i])])
  /\ UNCHANGED parseVars

\* v1 App: onCopyCode(seg.id, j, p.code)
onCopyCode(r) ==
  /\ rev = "v1"
  /\ ~effectPending
  /\ CanStart(r)
  /\ \E i \in 1..Len(segments) :
       \E j \in 1..Len(segments[i].parts) :
         /\ segments[i].parts[j].type = "code"
         /\ StartCopyText(r, [IdleReq EXCEPT !.kind = "code", !.idx = i,
                                             !.part = j,
                                             !.segId = segments[i].id,
                                             !.text = segments[i].parts[j].code])
  /\ UNCHANGED parseVars

\* v1: writeText settles and copyText goes on
WriteSettlesV1(r) ==
  /\ rev = "v1"
  /\ req[r].pc = "awaitWrite"
  /\ \/ AfterCopyText(r, req[r], copyTextWritten, "none")
     \/ \E leg \in LegacyEnv : AfterCopyText(r, req[r], copyTextCatch(leg), leg)
  /\ UNCHANGED parseVars

\* v1 onCopyCode: setTimeout(() => setCopiedCodeIds(...false), 1200)
TimerV1(r) ==
  /\ rev = "v1"
  /\ req[r].timer
  /\ copiedCodeIds' = MapSet(copiedCodeIds, CodeIdOf(req[r]), FALSE)
  /\ req' = [req EXCEPT ![r].timer = FALSE]
  /\ UNCHANGED <<manual, copied, sysClipboard, attached>>
  /\ UNCHANGED parseVars

----------------------------------------------------------------------------
(* Specifications *)

Next ==
  \/ RunEffect
  \/ SetInput
  \/ SetDepth
  \/ SetRaw
  \/ ClearRaw
  \/ SetLevel

\* Editing and splitting: every document of Docs, every depth
Spec == Init /\ [][Next]_vars

InitCopy == InitDoc({CopyDoc})

NextCopy ==
  \/ RunEffect
  \/ \E r \in ReqIds : onCopySegment(r)
  \/ \E r \in ReqIds : onCopyCode(r)
  \/ \E r \in ReqIds : WriteSettlesV1(r)
  \/ \E r \in ReqIds : TimerV1(r)
  \/ \E r \in ReqIds : copySection(r)
  \/ \E r \in ReqIds : onCopy(r)
  \/ \E r \in ReqIds : WriteSettlesV2(r)
  \/ \E r \in ReqIds : TimerV2(r)
  \/ ModalClose
  \/ ModalCopied

\* Copying from a page that shows CopyDoc
SpecCopy == InitCopy /\ [][NextCopy]_vars

\* the lines of the documents for the text runs: empty, whitespace only,
\* text, indented text, a heading
TextLineSet ==
  { <<>>, <<" ">>, <<"a">>, <<" ", "a">>, <<"#", " ", "a">> }

TextDocs ==
  { Join(ls, <<NL>>) : ls \in UNION { [1..n -> TextLineSet] : n \in 0..MaxLines } }

InitText == InitDoc(TextDocs)

\* Editing and splitting, from the documents of TextDocs
SpecText == InitText /\ [][Next]_vars

\* the lines of the documents for the headings: text, a heading, '#' with no
\* whitespace after it, six and seven '#', an indented heading, a heading
\* with whitespace around its text, a fence line
HeadingLineSet ==
  { <<"a">>,
    <<"#", " ", "a">>,
    <<"#", "a">>,
    <<"#", "#", "#", "#", "#", "#", " ", "a">>,
    <<"#", "#", "#", "#", "#", "#", "#", " ", "a">>,
    <<" ", "#", " ", "a">>,
    <<"#", " ", " ", "a", " ">>,
    BT3 }

HeadingDocs ==
  { Join(ls, <<NL>>) : ls \in UNION { [1..n -> HeadingLineSet] : n \in 0..MaxLines } }

InitHeading == InitDoc(HeadingDocs)

\* Editing and splitting, from the documents of HeadingDocs
SpecHeading == InitHeading /\ [][Next]_vars

\* the document on the page of v1 while editing and copying
EditDoc == Join(<<BT3, <<"a">>, BT3>>, <<NL>>)

InitEditCopy == InitDoc({EditDoc}) /\ rev = "v1"

NextEditCopy ==
  \/ RunEffect
  \/ SetInput
  \/ SetDepth
  \/ \E r \in ReqIds : onCopySegment(r)
  \/ \E r \in ReqIds : onCopyCode(r)
  \/ \E r \in ReqIds : WriteSettlesV1(r)
  \/ \E r \in ReqIds : TimerV1(r)

\* v1: editing while copy handlers are suspended and timers are pending
SpecEditCopy == InitEditCopy /\ [][NextEditCopy]_vars

----------------------------------------------------------------------------
(* Fences as the specification defines them, to state the claims about them *)

\* a fence line: three or more backquotes or tildes after optional
\* whitespace; its marker is the character, "none" for any other line
FenceMarker(line) ==
  LET t == TrimStart(line) IN
  IF LeadRun(t, BQ) >= 3 THEN BQ
  ELSE IF LeadRun(t, "~") >= 3 THEN "~"
  ELSE "none"

\* a closing line for marker m: made of the marker, with no trailing content
ClosesFence(line, m) ==
  LET t == Trim(line) IN FenceMarker(line) = m /\ LeadRun(t, m) = Len(t)

\* the marker of the fence that is open after the first n lines, or "none"
RECURSIVE OpenFenceAfter(_, _)
OpenFenceAfter(lines, n) ==
  IF n = 0 THEN "none"
  ELSE LET m == OpenFenceAfter(lines, n - 1) IN
       IF m = "none" THEN FenceMarker(lines[n])
       ELSE IF ClosesFence(lines[n], m) THEN "none"
       ELSE m

\* line i lies strictly between an opening fence line and its closing line
InsideClosedFence(lines, i) ==
  /\ OpenFenceAfter(lines, i - 1) # "none"
  /\ OpenFenceAfter(lines, i) # "none"
  /\ \E j \in (i + 1)..Len(lines) : OpenFenceAfter(lines, j) = "none"

\* tokenize pushes a heading token for line i
HeadingEmittedAt(lines, i) ==
  LET a == TokScan(lines, i - 1)
      b == TokScan(lines, i)
  IN Len(b.out) > Len(a.out) /\ b.out[Len(b.out)].type = "heading"

\* splitMarkdownByHeading starts a new buffer with line i
ChunkStartsAt(lines, i, lv) == i > 1 /\ Len(SplitScan(lines, i, lv).buf) = 1

HashLine(line) == line # <<>> /\ line[1] = "#"

----------------------------------------------------------------------------
(* Claims *)

\* C1 (fence opacity): a line that starts with '#' and lies strictly between
\* an opening fence line and its matching closing line never yields a heading
\* token in tokenize and never starts a new chunk in splitMarkdownByHeading,
\* at any depth.
C1_FenceOpacity ==
  /\ rev = "v1" =>
       LET lines == mdLines(input) IN
       \A i \in 1..Len(lines) :
         HashLine(lines[i]) /\ InsideClosedFence(lines, i)
           => ~HeadingEmittedAt(lines, i)
  /\ rev = "v2" =>
       LET lines == mdLines(raw) IN
       \A i \in 1..Len(lines) :
         HashLine(lines[i]) /\ InsideClosedFence(lines, i)
           => \A lv \in Depths : ~ChunkStartsAt(lines, i, lv)

\* C1, the two revisions apart: tokenize fails on tilde fences only
C1_TokenizeBackquoteOnly ==
  rev = "v1" =>
    LET lines == mdLines(input) IN
    (\A i \in 1..Len(lines) : FenceMarker(lines[i]) # "~")
      => \A i \in 1..Len(lines) :
           HashLine(lines[i]) /\ InsideClosedFence(lines, i)
             => ~HeadingEmittedAt(lines, i)

\* C1, splitMarkdownByHeading apart: it fails as well, on a fence of
\* backquotes that holds a line of backquotes followed by text
C1_SplitOnly ==
  rev = "v2" =>
    LET lines == mdLines(raw) IN
    \A i \in 1..Len(lines) :
      HashLine(lines[i]) /\ InsideClosedFence(lines, i)
        => \A lv \in Depths : ~ChunkStartsAt(lines, i, lv)

\* how often e occurs in the sequence lg
Count(lg, e) == Cardinality({k \in DOMAIN lg : lg[k] = e})

\* what the legacy tier meets when it fails
LegacyFails == LegacyEnv \ {"execTrue"}

\* C2 (copy tier ordering): in every run of smartCopy the legacy tier is
\* attempted before the manual-required callback is invoked, and when the
\* clipboard write and the legacy tier both fail the callback is invoked
\* exactly once by that run.
C2_TierOrdering ==
  rev = "v2" =>
    \A r \in ReqIds :
      LET lg == req[r].log IN
      /\ \A k \in DOMAIN lg :
           lg[k] = "requestManual" => \E j \in 1..(k - 1) : lg[j] = "execCommand"
      /\ req[r].pc = "done" /\ req[r].legacy \in LegacyFails
           => Count(lg, "requestManual") = 1

\* C2: a request whose clipboard write was rejected and whose legacy tier
\* failed has ended in the manual tier
C2_Witness ==
  \E r \in ReqIds :
    /\ rev = "v2"
    /\ req[r].pc = "done"
    /\ req[r].legacy \in LegacyFails
    /\ req[r].log = <<"writeText", "execCommand", "requestManual", "setManual">>

\* the stream of random values used where the ids do not matter
RndX == [k \in 1..(MaxLines + 2) |-> "x"]

\* C3 (round trip): every segment shown, serialized and then tokenized and
\* segmented again at the same depth, gives exactly one segment with the same
\* heading and the same parts.
C3_RoundTrip ==
  rev = "v1" /\ ~effectPending =>
    \A k \in DOMAIN segments :
      LET s == segments[k]
          rt == toSegments(tokenize(segmentToMarkdown(s)), depth, RndX)
      IN /\ Len(rt) = 1
         /\ rt[1].heading = s.heading
         /\ rt[1].parts = s.parts

\* C3, apart: the segments without a heading do round-trip when the input
\* leaves no fence open
C3_RoundTripHeadingless ==
  rev = "v1" /\ ~effectPending
    /\ ~TokScan(mdLines(input), Len(mdLines(input))).inCode =>
    \A k \in DOMAIN segments :
      LET s == segments[k]
          rt == toSegments(tokenize(segmentToMarkdown(s)), depth, RndX)
      IN s.heading = NullHeading =>
           /\ Len(rt) = 1
           /\ rt[1].heading = s.heading
           /\ rt[1].parts = s.parts

\* C4 (legacy cleanup): whenever no handler is in the middle of a turn, which
\* is every state here (a copy function has returned, or is suspended on the
\* clipboard write, or was not called), no transient textarea is attached to
\* the document.
C4_LegacyCleanup == attached = 0

\* C5 (no empty sections): every segment of toSegments has at least one part
\* and the segments are in the order they were opened; every chunk of
\* splitMarkdownByHeading has non-empty markdown, the chunks in the order
\* they were pushed.
C5_NoEmptySections ==
  /\ \A k \in DOMAIN segments :
       /\ Len(segments[k].parts) > 0
       /\ k > 1 => segments[k - 1].id.n < segments[k].id.n
  /\ \A k \in DOMAIN sections :
       /\ Len(sections[k].markdown) > 0
       /\ k > 1 => sections[k - 1].id < sections[k].id

\* C5: a buffer that trims to nothing was pushed before a boundary heading,
\* and two chunks came out
C5_Witness ==
  /\ rev = "v2"
  /\ LET lines == mdLines(raw) IN
     /\ Len(lines) >= 3
     /\ AllWS(lines[1])
     /\ SplitBoundary(Trim(lines[2]), level)
  /\ Len(sections) = 2

\* s holds sub as a contiguous part
Contains(s, sub) ==
  \E k \in 0..(Len(s) - Len(sub)) : SubSeq(s, k + 1, k + Len(sub)) = sub

\* the line that opened the fence tokenize is in after all the lines
OpenerIndex(lines) ==
  CHOOSE i \in 1..Len(lines) :
    /\ ~TokScan(lines, i - 1).inCode
    /\ \A j \in i..Len(lines) : TokScan(lines, j).inCode

\* C6 (unterminated fence): when the input ends inside a fence that has at
\* least one body line, tokenize gives the tokens of the lines before the
\* fence and then a single text token that holds the literal opening fence
\* line, language tag included, followed by the body lines, and no code token
\* for that fence.
C6_UnterminatedFence ==
  rev = "v1" =>
    LET lines == mdLines(input)
        st == TokScan(lines, Len(lines))
        toks == tokenize(input)
    IN st.inCode /\ st.codeBuf # <<>> =>
         /\ Len(toks) = Len(st.out) + 1
         /\ SubSeq(toks, 1, Len(st.out)) = st.out
         /\ toks[Len(toks)].type = "text"
         /\ Contains(toks[Len(toks)].text,
                     lines[OpenerIndex(lines)] \o <<NL>> \o Join(st.codeBuf, <<NL>>))

\* C6, the fences opened by a bare marker line apart: there the text token
\* is the opening line and the body
C6_UnterminatedBareFence ==
  rev = "v1" =>
    LET lines == mdLines(input)
        st == TokScan(lines, Len(lines))
        toks == tokenize(input)
    IN st.inCode /\ st.codeBuf # <<>> /\ lines[OpenerIndex(lines)] = BT3 =>
         /\ Len(toks) = Len(st.out) + 1
         /\ toks[Len(toks)] =
              TextPart(BT3 \o <<NL>> \o Join(st.codeBuf, <<NL>>))

RECURSIVE ConcatParts(_)
ConcatParts(segs) ==
  IF segs = <<>> THEN <<>> ELSE segs[1].parts \o ConcatParts(Tail(segs))

\* C7 (token conservation): the parts of the segments, concatenated in
\* segment order, are exactly the tokens; at depth 1 tokens that start with
\* their only level-1 heading make one segment that holds them all.
C7_TokenConservation ==
  rev = "v1" /\ ~effectPending =>
    LET toks == tokenize(input) IN
    /\ ConcatParts(segments) = toks
    /\ ( /\ depth = 1
         /\ toks # <<>>
         /\ toks[1].type = "heading" /\ toks[1].level = 1
         /\ \A k \in 2..Len(toks) : ~(toks[k].type = "heading" /\ toks[k].level = 1) )
       => Len(segments) = 1 /\ segments[1].parts = toks

\* C7: depth 1, a level-1 heading first, a deeper heading and more after it
C7_Witness ==
  /\ rev = "v1" /\ ~effectPending /\ depth = 1
  /\ LET toks == tokenize(input) IN
     /\ Len(toks) >= 3
     /\ toks[1].type = "heading" /\ toks[1].level = 1
     /\ \E k \in 2..Len(toks) : toks[k].type = "heading" /\ toks[k].level = 2
     /\ \E k \in 2..Len(toks) : toks[k].type = "code"
  /\ Len(segments) = 1

\* the positions in the token sequence at which the segments start
RECURSIVE SegStartsFrom(_, _)
SegStartsFrom(segs, pos) ==
  IF segs = <<>> THEN {}
  ELSE {pos} \cup SegStartsFrom(Tail(segs), pos + Len(segs[1].parts))

\* the loop states of splitMarkdownByHeading after 1, 2, ... n lines
RECURSIVE SplitStates(_, _, _)
SplitStates(lines, n, lv) ==
  IF n = 0 THEN <<>>
  ELSE LET prev == SplitStates(lines, n - 1, lv)
           st == IF n = 1 THEN SplitInit ELSE prev[n - 1]
       IN Append(prev, SplitStep(st, lines[n], lv))

\* the lines at which the chunks start: the first line with text of every
\* buffer that has one, a buffer starting at line 1 and at every line that
\* empties the buffer before it is added
ChunkStarts(lines, lv) ==
  LET sts == SplitStates(lines, Len(lines), lv)
      bs == {i \in 1..Len(lines) : i = 1 \/ Len(sts[i].buf) = 1}
      InBuf(i, b) == b <= i /\ \A c \in bs : c <= i => c <= b
  IN {i \in 1..Len(lines) :
        /\ ~AllWS(lines[i])
        /\ \E b \in bs : InBuf(i, b) /\ \A j \in b..(i - 1) : AllWS(lines[j])}

\* C8 (depth monotonicity): for the same tokens (the same text) the next
\* greater depth never gives fewer sections than the depth in use, and every
\* place where a section starts is a place where a section starts at the
\* next depth.
C8_DepthMonotone ==
  /\ rev = "v1" /\ ~effectPending /\ depth < 3 =>
       LET toks == tokenize(input)
           deeper == toSegments(toks, depth + 1, RndX)
       IN /\ Len(segments) <= Len(deeper)
          /\ SegStartsFrom(segments, 1) \subseteq SegStartsFrom(deeper, 1)
  /\ rev = "v2" /\ level < 3 =>
       LET lines == mdLines(raw)
           starts == ChunkStarts(lines, level)
       IN /\ Len(sections) <= Len(splitMarkdownByHeading(raw, level + 1))
          /\ Cardinality(starts) = Len(sections)
          /\ starts \subseteq ChunkStarts(lines, level + 1)

\* C8: a text that splits into more sections at every depth, at depth 2
C8_Witness ==
  /\ rev = "v1" /\ ~effectPending /\ depth = 2
  /\ LET toks == tokenize(input) IN
     /\ Len(toSegments(toks, 1, RndX)) < Len(segments)
     /\ Len(segments) < Len(toSegments(toks, 3, RndX))

\* the tier a finished copy names: copyText names none, it returns true when
\* one of its two tiers wrote
CopyOutcome(rq) ==
  IF rq.res = "true"
    THEN IF Count(rq.log, "execCommand") > 0 THEN "exec" ELSE "clipboard"
    ELSE rq.res

\* C9 (copy never surfaces an error): whatever the tiers meet, no copy
\* rejects to its caller, every finished copy names one of the three
\* outcomes, and a throw inside the legacy tier ends in the manual tier.
C9_NeverRejects ==
  \A r \in ReqIds :
    /\ req[r].pc # "rejected"
    /\ req[r].pc = "done" => CopyOutcome(req[r]) \in {"clipboard", "exec", "manual"}
    /\ req[r].pc = "done"
         /\ req[r].legacy \in {"createThrows", "selectThrows", "execThrows"}
         => CopyOutcome(req[r]) = "manual"

\* C9, smartCopy apart: it never rejects and names one of the three outcomes
C9_SmartCopyNeverRejects ==
  rev = "v2" =>
    \A r \in ReqIds :
      /\ req[r].pc # "rejected"
      /\ req[r].pc = "done" => req[r].res \in {"clipboard", "exec", "manual"}
      /\ req[r].pc = "done" /\ req[r].legacy \in LegacyFails => req[r].res = "manual"

\* the handler of request r returns or rejects in this step
Ends(r) == req[r].pc \in {"idle", "awaitWrite"} /\ req'[r].pc \in {"done", "rejected"}

\* C10 (worst-case manual surface): a copy request ends with its text written
\* to the clipboard by the first or the second tier, or with the manual-copy
\* modal open and showing that text.
C10_WrittenOrManual ==
  [][\A r \in ReqIds :
       Ends(r) =>
         \/ /\ CopyOutcome(req'[r]) \in {"clipboard", "exec"}
            /\ sysClipboard' = req'[r].text
         \/ /\ manual'.open
            /\ manual'.text = req'[r].text]_vars

\* C10, the smartCopy revision apart
C10_SmartCopyWrittenOrManual ==
  [][\A r \in ReqIds :
       rev = "v2" /\ Ends(r) =>
         \/ /\ req'[r].res \in {"clipboard", "exec"}
            /\ sysClipboard' = req'[r].text
         \/ /\ manual'.open
            /\ manual'.text = req'[r].text]_vars

\* C11 (no retry, first success wins): in one run of smartCopy every tier is
\* attempted at most once and in the order clipboard write, legacy tier,
\* manual request; the legacy tier is attempted only without a clipboard
\* write that succeeded, the manual request only after the legacy tier
\* failed; what smartCopy returns names the tier that succeeded and no later
\* tier was attempted.
C11_NoRetry ==
  rev = "v2" =>
    \A r \in ReqIds :
      LET rq == req[r]
          lg == rq.log
          Before(a, b) ==
            \A i, j \in DOMAIN lg : lg[i] = a /\ lg[j] = b => i < j
      IN /\ \A e \in {"writeText", "execCommand", "requestManual"} :
              Count(lg, e) <= 1
         /\ Before("writeText", "execCommand")
         /\ Before("execCommand", "requestManual")
         /\ Count(lg, "requestManual") = 1 => Count(lg, "execCommand") = 1
         /\ rq.pc = "awaitWrite" => lg = <<"writeText">>
         /\ rq.pc = "done" =>
              /\ rq.res = "clipboard" => lg = <<"writeText">>
              /\ rq.res = "exec" =>
                   /\ rq.legacy = "execTrue"
                   /\ Count(lg, "execCommand") = 1
                   /\ Count(lg, "requestManual") = 0
              /\ rq.res = "manual" =>
                   /\ rq.legacy \in LegacyFails
                   /\ Count(lg, "execCommand") = 1
                   /\ Count(lg, "requestManual") = 1
              /\ rq.legacy = "execTrue" => rq.res = "exec"

\* C11: a clipboard write was rejected and the legacy tier wrote the text
C11_Witness ==
  \E r \in ReqIds :
    /\ rev = "v2"
    /\ req[r].pc = "done"
    /\ req[r].res = "exec"
    /\ req[r].log = <<"writeText", "execCommand">>

\* C12 (manual completion only on acknowledgement): the completion of a
\* request that ended in the manual tier runs only in the step of the
\* modal's Copied button, pressed while the modal holds that request's
\* callback, and at most once; no other step (the handler's return, the
\* modal's Close, a timer) runs it.
C12_CompletionOnAck ==
  [][\A r \in ReqIds :
       rev = "v2" /\ req'[r].res = "manual" =>
         /\ req'[r].completed <= 1
         /\ req'[r].completed # req[r].completed =>
              /\ req[r].res = "manual"
              /\ manual.open /\ manual.onComplete = r
              /\ ~manual'.open
              /\ req'[r].completed = req[r].completed + 1
              /\ req'[r].log = Append(req[r].log, "onCopied")
              /\ req'[r].timer = req[r].timer]_vars

\* C12: a code block's copy ended in the manual tier, its timer ran, and
\* the Copied button ran its completion
C12_Witness ==
  \E r \in ReqIds :
    /\ rev = "v2"
    /\ req[r].res = "manual"
    /\ req[r].kind = "code"
    /\ ~req[r].timer
    /\ req[r].completed = 1
    /\ copied[req[r].idx]

\* C13 (unterminated fence content is never dropped): when the input ends
\* inside a fence, with or without body lines, tokenize gives the tokens of
\* the lines before the fence and then one text token that holds the fence
\* marker and the body.
C13_DanglingFenceKept ==
  rev = "v1" =>
    LET lines == mdLines(input)
        st == TokScan(lines, Len(lines))
        toks == tokenize(input)
    IN st.inCode =>
         /\ Len(toks) = Len(st.out) + 1
         /\ toks[Len(toks)].type = "text"
         /\ Contains(toks[Len(toks)].text, BT3)
         /\ Contains(toks[Len(toks)].text, Join(st.codeBuf, <<NL>>))

\* C13, the fences with at least one body line apart: their text is kept
C13_DanglingFenceWithBodyKept ==
  rev = "v1" =>
    LET lines == mdLines(input)
        st == TokScan(lines, Len(lines))
        toks == tokenize(input)
    IN st.inCode /\ st.codeBuf # <<>> =>
         /\ Len(toks) = Len(st.out) + 1
         /\ toks[Len(toks)].type = "text"
         /\ Contains(toks[Len(toks)].text, BT3)
         /\ Contains(toks[Len(toks)].text, Join(st.codeBuf, <<NL>>))

\* the positions of the heading tokens that are boundaries at depth d
BoundaryTokens(toks, d) ==
  {k \in DOMAIN toks : toks[k].type = "heading" /\ toks[k].level <= d}

\* a token comes before the first boundary heading, or there is none and
\* there are tokens
HasLeadingTokens(toks, d) ==
  toks # <<>> /\ 1 \notin BoundaryTokens(toks, d)

\* C14 (section count rule): toSegments gives one segment per heading token
\* with level <= depth, and one more when a token precedes the first of them
\* (or there is none of them and there are tokens); the segments start at
\* those headings and nowhere else, so a heading with a level above the depth
\* starts none.
C14_SectionCount ==
  rev = "v1" /\ ~effectPending =>
    LET toks == tokenize(input)
        bs == BoundaryTokens(toks, depth)
        lead == IF HasLeadingTokens(toks, depth) THEN {1} ELSE {}
    IN /\ Len(segments) = Cardinality(bs) + Cardinality(lead)
       /\ SegStartsFrom(segments, 1) = bs \cup lead
       /\ \A k \in DOMAIN segments :
            segments[k].heading # NullHeading => segments[k].heading.level <= depth

\* C14: depth 2, text first, then a heading of level 2 and one of level 3
C14_Witness ==
  /\ rev = "v1" /\ ~effectPending /\ depth = 2
  /\ LET toks == tokenize(input) IN
     /\ Len(toks) = 3
     /\ toks[1].type = "text"
     /\ toks[2].type = "heading" /\ toks[2].level = 2
     /\ toks[3].type = "heading" /\ toks[3].level = 3
  /\ Len(segments) = 2

\* C15 (heading attribute invariant): among the segments of toSegments only
\* the first may lack a heading; a heading has a level <= depth, and the
\* first part of a segment with a heading is the heading token of that level
\* and text.
C15_HeadingAttribute ==
  rev = "v1" /\ ~effectPending =>
    \A k \in DOMAIN segments :
      LET s == segments[k] IN
      /\ k > 1 => s.heading # NullHeading
      /\ s.heading # NullHeading =>
           /\ s.heading.level <= depth
           /\ s.parts # <<>>
           /\ s.parts[1] = HeadingPart(s.heading.level, s.heading.text)

\* C15: a first segment without heading that holds a deeper heading, and a
\* segment with a heading after it
C15_Witness ==
  /\ rev = "v1" /\ ~effectPending
  /\ Len(segments) >= 2
  /\ segments[1].heading = NullHeading
  /\ \E j \in DOMAIN segments[1].parts : segments[1].parts[j].type = "heading"
  /\ segments[2].heading # NullHeading

\* line i opens a fence and line j is its matching close
FenceRegion(lines, i, j) ==
  /\ i < j
  /\ OpenFenceAfter(lines, i - 1) = "none"
  /\ \A k \in i..(j - 1) : OpenFenceAfter(lines, k) # "none"
  /\ OpenFenceAfter(lines, j) = "none"

\* tokenize emits the lines between i and j as one code token at line j
OneCodeToken(lines, i, j) ==
  LET a == TokScan(lines, i)
      b == TokScan(lines, j)
  IN /\ Len(b.out) = Len(a.out) + 1
     /\ b.out[Len(b.out)].type = "code"
     /\ b.out[Len(b.out)].code = Join(SubSeq(lines, i + 1, j - 1), <<NL>>)

\* splitMarkdownByHeading: a fence line outside a fence opens a fence of its
\* style, and a fence is left only on a line of the style it was opened with
SplitFenceStyles(lines, lv) ==
  \A i \in 1..Len(lines) :
    LET a == SplitScan(lines, i - 1, lv)
        b == SplitScan(lines, i, lv)
    IN /\ ~a.inFence /\ FenceMarker(lines[i]) # "none" =>
            b.inFence /\ b.fenceChar = FenceMarker(lines[i])
       /\ a.inFence /\ ~b.inFence => FenceMarker(lines[i]) = a.fenceChar

\* C16 (both fence marker styles): outside a fence a line of three or more
\* backquotes or of three or more tildes opens a fence, tokenize emits the
\* region up to the matching close as one code token, and a fence is closed
\* only by a line of the style that opened it, in tokenize and in
\* splitMarkdownByHeading.
C16_BothFenceStyles ==
  /\ rev = "v1" =>
       LET lines == mdLines(input) IN
       \A i, j \in 1..Len(lines) :
         FenceRegion(lines, i, j) => OneCodeToken(lines, i, j)
  /\ rev = "v2" => SplitFenceStyles(mdLines(raw), level)

\* C16, the inputs without a line of tildes apart: tokenize emits the code
\* token
C16_TokenizeBackquoteFences ==
  rev = "v1" =>
    LET lines == mdLines(input) IN
    (\A i \in 1..Len(lines) : FenceMarker(lines[i]) # "~")
      => \A i, j \in 1..Len(lines) :
           FenceRegion(lines, i, j) => OneCodeToken(lines, i, j)

\* C16, splitMarkdownByHeading apart: it knows both styles
C16_SplitBothStyles ==
  rev = "v2" => SplitFenceStyles(mdLines(raw), level)

\* the language tag of an opening fence line: what follows the marker,
\* trimmed
FenceTag(line) ==
  LET t == TrimStart(line) IN Trim(Drop(t, LeadRun(t, FenceMarker(line))))

\* tokenize keeps the region between the opening line i and its close j:
\* every line is added to the body as it is, line j closes the fence, and the
\* code token has the body and the tag of line i
RegionKept(lines, i, j) ==
  /\ \A k \in i..(j - 1) :
       LET st == TokScan(lines, k) IN
       /\ st.inCode
       /\ st.codeBuf = SubSeq(lines, i + 1, k)
       /\ st.out = TokScan(lines, i).out
  /\ LET b == TokScan(lines, j) IN
     /\ ~b.inCode
     /\ b.out = Append(TokScan(lines, i).out,
                       CodePart(FenceTag(lines[i]),
                                Join(SubSeq(lines, i + 1, j - 1), <<NL>>)))

\* splitMarkdownByHeading is inside a fence after exactly the lines after
\* which a fence is open
SplitFenceAgrees(lines, lv) ==
  \A i \in 1..Len(lines) :
    SplitScan(lines, i, lv).inFence <=> OpenFenceAfter(lines, i) # "none"

\* C17 (fence close and body fidelity): inside a fence only a line made of
\* the marker alone closes it; every other line, one that starts with the
\* marker and goes on with text and one that looks like a heading included,
\* stays in the region; the code token of tokenize has exactly the lines
\* between the opening and the closing line, joined by newline, and the
\* trimmed tag of the opening line.
C17_FenceCloseAndBody ==
  /\ rev = "v1" =>
       LET lines == mdLines(input) IN
       \A i, j \in 1..Len(lines) :
         FenceRegion(lines, i, j) => RegionKept(lines, i, j)
  /\ rev = "v2" => SplitFenceAgrees(mdLines(raw), level)

\* C17, splitMarkdownByHeading apart: it fails
C17_SplitFenceClose ==
  rev = "v2" => SplitFenceAgrees(mdLines(raw), level)

\* C17, tokenize on the inputs without a line of tildes apart: it holds
C17_TokenizeBackquoteFences ==
  rev = "v1" =>
    LET lines == mdLines(input) IN
    (\A i \in 1..Len(lines) : FenceMarker(lines[i]) # "~")
      => \A i, j \in 1..Len(lines) :
           FenceRegion(lines, i, j) => RegionKept(lines, i, j)

\* number of leading lines of run that are blank (hold whitespace only)
RECURSIVE LeadBlank(_)
LeadBlank(run) ==
  IF run = <<>> \/ ~AllWS(run[1]) THEN 0 ELSE 1 + LeadBlank(Tail(run))

RECURSIVE TrailBlank(_)
TrailBlank(run) ==
  IF run = <<>> \/ ~AllWS(run[Len(run)]) THEN 0
  ELSE 1 + TrailBlank(SubSeq(run, 1, Len(run) - 1))

\* number of leading lines of run that are empty
RECURSIVE LeadEmpty(_)
LeadEmpty(run) ==
  IF run = <<>> \/ run[1] # <<>> THEN 0 ELSE 1 + LeadEmpty(Tail(run))

\* every run of three or more consecutive blank lines replaced by one blank
\* line, the shorter runs kept
RECURSIVE CollapseBlankRuns(_)
CollapseBlankRuns(run) ==
  IF run = <<>> THEN <<>>
  ELSE LET k == LeadBlank(run) IN
    IF k >= 3 THEN <<run[1]>> \o CollapseBlankRuns(Drop(run, k))
    ELSE IF k >= 1 THEN Take(run, k) \o CollapseBlankRuns(Drop(run, k))
    ELSE <<run[1]>> \o CollapseBlankRuns(Tail(run))

\* every run of two or more consecutive empty lines replaced by one empty
\* line, the single empty lines kept
RECURSIVE CollapseEmptyRuns(_)
CollapseEmptyRuns(run) ==
  IF run = <<>> THEN <<>>
  ELSE LET k == LeadEmpty(run) IN
    IF k >= 2 THEN <<run[1]>> \o CollapseEmptyRuns(Drop(run, k))
    ELSE <<run[1]>> \o CollapseEmptyRuns(Tail(run))

\* the lines of a run without the blank lines at its ends and with the runs
\* of three or more blank lines collapsed
NormalizedRun(run) ==
  LET a == Drop(run, LeadBlank(run))
      b == Take(a, Len(a) - TrailBlank(a))
  IN CollapseBlankRuns(b)

\* The lines of a run, line by line as trimEmptyJoin leaves them: the leading
\* blank lines removed as long as another line follows, then the runs of two
\* or more empty lines collapsed, then the trailing blank lines removed as
\* long as another line precedes
NormalizedRunFromTwo(run) ==
  LET a == Drop(run, IF LeadBlank(run) = Len(run) THEN Len(run) - 1
                     ELSE LeadBlank(run))
      b == CollapseEmptyRuns(a)
  IN Take(b, IF TrailBlank(b) = Len(b) THEN 1 ELSE Len(b) - TrailBlank(b))

\* line i is the last line of a run of text lines of tokenize
RunEndsAt(lines, i) ==
  /\ TokScan(lines, i).buf # <<>>
  /\ i = Len(lines) \/ TokScan(lines, i + 1).buf = <<>>

\* flushing the run that ends at line i adds the text token of the lines
\* norm, or no token when their text is empty
RunGives(lines, i, norm) ==
  LET st == TokScan(lines, i) IN
  flushText(st).out =
    IF Join(norm, <<NL>>) = <<>> THEN st.out
    ELSE Append(st.out, TextPart(Join(norm, <<NL>>)))

NoEmptyText(toks) ==
  \A k \in DOMAIN toks : toks[k].type = "text" => toks[k].text # <<>>

\* C18 (text-run normalization): the text token of a run of lines
\* that are neither headings nor fence lines is the run without its leading
\* and trailing blank lines and with every run of three or more consecutive
\* blank lines collapsed to one blank line, everything else unchanged; a run
\* that normalizes to nothing gives no token, and no text token is empty.
C18_TextRunNormalized ==
  rev = "v1" =>
    LET lines == mdLines(input) IN
    /\ \A i \in 1..Len(lines) :
         RunEndsAt(lines, i) =>
           RunGives(lines, i, NormalizedRun(TokScan(lines, i).buf))
    /\ NoEmptyText(tokenize(input))

\* C18, apart: what does hold of every run. Its text token is the run
\* without its leading blank lines as long as another line follows, with
\* every run of two or more consecutive empty lines collapsed to one empty
\* line, and without its trailing blank lines as long as another line
\* precedes; no text token is the empty string.
C18_TextRunNormalizedFromTwo ==
  rev = "v1" =>
    LET lines == mdLines(input) IN
    /\ \A i \in 1..Len(lines) :
         RunEndsAt(lines, i) =>
           RunGives(lines, i, NormalizedRunFromTwo(TokScan(lines, i).buf))
    /\ NoEmptyText(tokenize(input))

\* a heading line: 1 to 6 '#' at its start, then a whitespace character
IsHeadingLine(line) ==
  \E k \in 1..6 :
    /\ Len(line) > k
    /\ \A j \in 1..k : line[j] = "#"
    /\ IsWS(line[k + 1])

\* the number of '#' of a heading line
HashCount(line) ==
  CHOOSE k \in 1..6 :
    /\ Len(line) > k
    /\ \A j \in 1..k : line[j] = "#"
    /\ IsWS(line[k + 1])

\* the text of a heading line: what follows the '#', trimmed
HeadingTextOf(line) == Trim(SubSeq(line, HashCount(line) + 1, Len(line)))

\* line i is outside a fence and is no fence line
OutsideFence(lines, i) ==
  OpenFenceAfter(lines, i - 1) = "none" /\ FenceMarker(lines[i]) = "none"

\* tokenize at line i: a heading line flushes the pending run and adds its
\* heading token, any other line joins the pending run
TokenizeHeadingAt(lines, i) ==
  LET a == TokScan(lines, i - 1)
      b == TokScan(lines, i)
  IN OutsideFence(lines, i) /\ ~a.inCode =>
       IF IsHeadingLine(lines[i])
         THEN /\ b.out = Append(flushText(a).out,
                                HeadingPart(HashCount(lines[i]),
                                            HeadingTextOf(lines[i])))
              /\ b.buf = <<>>
         ELSE /\ b.out = a.out
              /\ b.buf = Append(a.buf, lines[i])

\* splitMarkdownByHeading at line i: a chunk starts there only at a heading
\* line of a level within lv, and at every such line that has a text
SplitHeadingAt(lines, i, lv) ==
  OutsideFence(lines, i) /\ ~SplitScan(lines, i - 1, lv).inFence =>
    /\ ChunkStartsAt(lines, i, lv) =>
         IsHeadingLine(lines[i]) /\ HashCount(lines[i]) <= lv
    /\ ( /\ i > 1
         /\ IsHeadingLine(lines[i])
         /\ HashCount(lines[i]) <= lv
         /\ HeadingTextOf(lines[i]) # <<>> )
       => ChunkStartsAt(lines, i, lv)

\* C19 (heading recognition): outside a fence a line is a heading exactly
\* when it starts with 1 to 6 '#' followed by whitespace; tokenize then
\* flushes the pending text run and adds the heading token with the number
\* of '#' as level and the trimmed rest as text, and adds every other line
\* (seven '#', '#' without whitespace after it) to the pending run;
\* splitMarkdownByHeading takes the same lines, and no others, as headings.
C19_HeadingRecognition ==
  /\ rev = "v1" =>
       LET lines == mdLines(input) IN
       \A i \in 1..Len(lines) : TokenizeHeadingAt(lines, i)
  /\ rev = "v2" =>
       LET lines == mdLines(raw) IN
       \A i \in 1..Len(lines) : SplitHeadingAt(lines, i, level)

\* C19, tokenize apart: it holds
C19_TokenizeHeadings ==
  rev = "v1" =>
    LET lines == mdLines(input) IN
    \A i \in 1..Len(lines) : TokenizeHeadingAt(lines, i)

\* C19, splitMarkdownByHeading on the lines that do not start with
\* whitespace apart: it holds
C19_SplitUnindentedHeadings ==
  rev = "v2" =>
    LET lines == mdLines(raw) IN
    \A i \in 1..Len(lines) :
      (lines[i] = <<>> \/ ~IsWS(lines[i][1])) => SplitHeadingAt(lines, i, level)

\* the segments shown are those of the input and the depth, parsed anew
SegmentsFresh ==
  \E rnd \in RandStreams : segments = toSegments(tokenize(input), depth, rnd)

\* C20 (full recomputation): once the effect has run after the changes of
\* input and depth, the segments shown are toSegments(tokenize(input), depth)
\* computed from scratch, and no code block is flagged as copied by a copy
\* that was started on an earlier parse.
C20_FullRecomputation ==
  rev = "v1" /\ ~effectPending =>
    /\ SegmentsFresh
    /\ \A key \in DOMAIN copiedCodeIds :
         copiedCodeIds[key] =>
           \E r \in ReqIds :
             /\ ~req[r].stale
             /\ req[r].pc = "done"
             /\ req[r].kind = "code"
             /\ CodeIdOf(req[r]) = key

\* C20, the segments apart: they are recomputed in full
C20_SegmentsRecomputed == rev = "v1" /\ ~effectPending => SegmentsFresh

\* the standalone fenced form of a code token: the opening fence with the
\* language tag, the body, the closing fence
FencedForm(p) == Join(<<BT3 \o p.lang, p.code, BT3>>, <<NL>>)

\* the code tokens of a token sequence, in order
CodeTokens(tokens) == SelectSeq(tokens, LAMBDA t : t.type = "code")

\* the code token the copy request r was triggered on
CodeTokenOf(r) ==
  IF rev = "v1" THEN segments[req[r].idx].parts[req[r].part]
  ELSE CodeTokens(tokenize(raw))[req[r].idx]

\* C21 (code-block-only copy): a copy request triggered on a single code
\* block hands to the copy protocol the fenced serialization of that code
\* token: opening fence with the language tag, body, closing fence.
C21_CodeCopyFenced ==
  \A r \in ReqIds :
    req[r].kind = "code" => req[r].text = FencedForm(CodeTokenOf(r))

\* C21, apart: what the handlers do hand over is the body of the code block,
\* in v2 as rendered, with the line end that closes it
C21_CodeCopyBody ==
  \A r \in ReqIds :
    req[r].kind = "code" =>
      req[r].text = IF rev = "v1" THEN CodeTokenOf(r).code
                    ELSE CodeTokenOf(r).code \o <<NL>>

\* no two elements of the sequence s have the same id
UniqueIds(s) == \A i, j \in DOMAIN s : i # j => s[i].id # s[j].id

\* C22 (section ids unique within a run): no two of the segments a run of
\* toSegments returns, and no two of the chunks a run of
\* splitMarkdownByHeading returns, have the same id, also when empty ones
\* were left out.
C22_UniqueIds ==
  /\ rev = "v1" => UniqueIds(segments)
  /\ rev = "v2" => UniqueIds(sections)

\* three segments on the page although Math.random gave the same value for
\* the first and the third
C22_Witness ==
  /\ rev = "v1"
  /\ ~effectPending
  /\ Len(segments) >= 3
  /\ segments[1].id.suffix = segments[3].id.suffix
  /\ segments[1].id.suffix # segments[2].id.suffix

\* the modal is acknowledged in this step and the completion of r runs
AckCompletes(r) ==
  /\ manual.open
  /\ ~manual'.open
  /\ req'[r].completed > req[r].completed

\* C23 (manual hand-off under overlapping requests): whenever the manual
\* modal is open with a completion callback set, the callback is that of the
\* copy request whose text the modal shows, a request that ended in the manual
\* tier; and acknowledging the modal runs the completion of no request but the
\* one whose text was shown.
C23_ManualHandoff ==
  /\ [](rev = "v2" /\ manual.open /\ manual.onComplete # 0 =>
          /\ req[manual.onComplete].pc = "done"
          /\ req[manual.onComplete].res = "manual"
          /\ req[manual.onComplete].text = manual.text)
  /\ [][\A r \in ReqIds :
          rev = "v2" /\ AckCompletes(r) =>
            /\ r = manual.onComplete
            /\ req[r].text = manual.text
            /\ \A q \in ReqIds \ {r} : req'[q] = req[q]]_vars

\* two requests were suspended on the write and both ended in the manual
\* tier with different texts; the modal shows the one that settled last, and
\* the other's completion has not run
C23_Witness ==
  /\ rev = "v2"
  /\ manual.open
  /\ manual.onComplete # 0
  /\ \E q \in ReqIds \ {manual.onComplete} :
       /\ req[q].res = "manual"
       /\ req[q].text # manual.text
       /\ req[q].completed = 0
       /\ req[q].log[1] = "writeText"
       /\ req[manual.onComplete].log[1] = "writeText"

====
